---- MODULE Spec2Model ----
(***************************************************************************)
(* A model of voronoicell_2d (src/src/cell_2d.cc): one two-dimensional     *)
(* Voronoi cell held as a cyclic doubly-linked vertex list in two parallel *)
(* flat arrays, pts (coordinates) and ed (succ/pred indices).              *)
(*                                                                         *)
(* Numbers.  The code computes in IEEE doubles.  A double is modelled as a *)
(* pair <<k, v>>: <<0, n>> is the finite value n on an integer grid,       *)
(* <<1, s>> is the infinity of sign s, <<2, 0>> is NaN.  A finite quotient *)
(* is rounded to the nearest grid point, as a double operation rounds to   *)
(* the nearest representable value; a division by zero, and arithmetic on  *)
(* the special values, follow IEEE 754.  Results that the code scales by a *)
(* constant (0.5, 0.125, 1/3) are kept exactly as <<0, num, den>>.         *)
(***************************************************************************)
EXTENDS Integers, Sequences, FiniteSets, TLC

\* ------------------------------------------------------------------------
\* Configuration constants.  They are set in the repository's config header,
\* which is not among the source files; the values are small stand-ins.

init_vertices == 4

max_vertices == 8

init_delete_size == 2

max_delete_size == 8

tolerance == 1

\* ------------------------------------------------------------------------
\* Bounds of the model.

\* init's arguments are drawn from {-MaxCoord, MaxCoord}
MaxCoord == 1

\* plane's rsq is drawn from -MaxRsq .. MaxRsq
MaxRsq == 4

\* at most MaxCalls calls of init and plane are made on a cell
MaxCalls == 4

\* ------------------------------------------------------------------------
\* Doubles.

Fin(n) == <<0, n>>

Inf(s) == <<1, s>>

NaN == <<2, 0>>

IsFin(a) == a[1] = 0

IsNaN(a) == a[1] = 2

Sgn(n) == IF n > 0 THEN 1 ELSE IF n < 0 THEN -1 ELSE 0

\* a + b
FAdd(a, b) ==
    IF IsNaN(a) \/ IsNaN(b) THEN NaN
    ELSE IF a[1] = 1 THEN (IF b[1] = 1 /\ b[2] # a[2] THEN NaN ELSE a)
    ELSE IF b[1] = 1 THEN b
    ELSE Fin(a[2] + b[2])

FNeg(a) == <<a[1], -a[2]>>

\* a - b
FSub(a, b) == FAdd(a, FNeg(b))

\* a * b
FMul(a, b) ==
    IF IsNaN(a) \/ IsNaN(b) THEN NaN
    ELSE IF a[1] = 1 \/ b[1] = 1
         THEN (IF Sgn(a[2]) * Sgn(b[2]) = 0 THEN NaN ELSE Inf(Sgn(a[2]) * Sgn(b[2])))
    ELSE Fin(a[2] * b[2])

\* a < b; every comparison with NaN is false
FLt(a, b) ==
    /\ ~IsNaN(a)
    /\ ~IsNaN(b)
    /\ IF a[1] = 1 THEN a[2] < 0 /\ b # a
       ELSE IF b[1] = 1 THEN b[2] > 0
       ELSE a[2] < b[2]

\* a > b
FGt(a, b) == FLt(b, a)

\* a <= b
FLe(a, b) == ~IsNaN(a) /\ ~IsNaN(b) /\ ~FLt(b, a)

\* n / d for integers, d # 0, rounded to the nearest grid point
RoundDiv(n, d) ==
    IF d > 0 THEN (2 * n + d) \div (2 * d)
    ELSE (2 * (-n) + (-d)) \div (2 * (-d))

\* a * fac with fac = 1 / d, as in "fac=1/(u2-l); ...=(...)*fac".  A zero
\* divisor is the +0 of a difference of equal values, so fac is +infinity.
FMulRecip(a, d) ==
    IF IsNaN(a) \/ IsNaN(d) THEN NaN
    ELSE IF d[1] = 1 THEN (IF IsFin(a) THEN Fin(0) ELSE NaN)
    ELSE IF d[2] = 0
         THEN (IF IsFin(a)
               THEN (IF a[2] = 0 THEN NaN ELSE Inf(Sgn(a[2])))
               ELSE a)
    ELSE IF IsFin(a) THEN Fin(RoundDiv(a[2], d[2]))
    ELSE Inf(a[2] * Sgn(d[2]))

\* a scaled by the constant 1/den, kept exactly
Scaled(a, den) == IF IsFin(a) THEN <<0, a[2], den>> ELSE <<a[1], a[2], 0>>

\* the exact value 0 of a scaled result
IsZero(r) == r[1] = 0 /\ r[2] = 0

\* floor of the square root of a natural number
RECURSIVE ISqrtFrom(_, _)
ISqrtFrom(n, k) == IF (k + 1) * (k + 1) > n THEN k ELSE ISqrtFrom(n, k + 1)

\* sqrt(a)
FSqrt(a) ==
    IF IsNaN(a) THEN NaN
    ELSE IF a[1] = 1 THEN (IF a[2] > 0 THEN a ELSE NaN)
    ELSE IF a[2] < 0 THEN NaN
    ELSE Fin(ISqrtFrom(a[2], 0))

\* ------------------------------------------------------------------------
\* State.

VARIABLES
    p,                    \* number of live vertices
    ed,                   \* adjacency arena: ed[2v] = succ(v), ed[2v+1] = pred(v)
    pts,                  \* coordinate arena: pts[2v], pts[2v+1]
    current_vertices,     \* capacity of ed and pts, in vertices
    current_delete_size,  \* capacity of the delete stack ds
    status,               \* "ok", or "fatal" after voropp_fatal_error has exited
    inited,               \* init has been called on this cell
    heap,                 \* what this run's freshly allocated memory holds
    calls,                \* calls of init and plane made so far
    emptied,              \* a plane call has returned false since the last init
    last                  \* the last call: its name, what it returned, and what
                          \* the cell looked like to it

vars == <<p, ed, pts, current_vertices, current_delete_size, status, inited,
          heap, calls, emptied, last>>

\* What an uninitialised int or double may hold.  new int[n] and new double[n]
\* leave their elements indeterminate, and the constructor leaves p unset.
Garbage == { [d |-> Fin(0), i |-> 0], [d |-> Fin(3), i |-> -7] }

UninitP == {-1, 0, 9}

Tol == Fin(tolerance)

\* the arguments of one plane call
PlaneArgs == [x : {-1, 0, 1}, y : {-1, 0, 1}, rsq : (-MaxRsq) .. MaxRsq]

\* the arguments of one init call
InitArgs == [xmin : {-MaxCoord}, xmax : {-MaxCoord, MaxCoord},
             ymin : {-MaxCoord}, ymax : {-MaxCoord, MaxCoord}]

succ(e, v) == e[2 * v]

pred(e, v) == e[2 * v + 1]

\* pos(x,y,rsq,qp) = x*pts[2*qp]+y*pts[2*qp+1]-rsq
pos(ptsv, x, y, rsq, qp) ==
    FSub(FAdd(FMul(Fin(x), ptsv[2 * qp]), FMul(Fin(y), ptsv[2 * qp + 1])), Fin(rsq))

\* pos of vertex q for the arguments a, in the arena of the run m
P(m, a, q) == pos(m.pts, a.x, a.y, a.rsq, q)

\* ------------------------------------------------------------------------
\* Memory growth.  m is the running state of one plane call: the fields p, ed,
\* pts, cv (current_vertices), cds (current_delete_size), ds (the delete stack
\* ds[0..stackp)), the locals of plane, and st: "run" while the call executes,
\* "true"/"false" once it has returned, "fatal" when voropp_fatal_error exits,
\* "hang" when a loop can never leave, "oob" on a read before the arena.
\* nw lists, for each vertex the call has appended, <<its index, the capacity
\* current_vertices at that write>>.

\* add_memory_vertices copying one coordinate too few
add_memory_vertices_short(m, g) ==
    LET ncv == 2 * m.cv IN
    IF ncv > max_vertices
    THEN [m EXCEPT !.cv = ncv, !.st = "fatal"]
    ELSE [m EXCEPT !.cv = ncv,
            !.pts = [i \in 0 .. (2 * ncv - 1) |->
                        IF i < 2 * m.cv - 1 THEN m.pts[i] ELSE g.d],
            !.ed = [i \in 0 .. (2 * ncv - 1) |->
                        IF i < 2 * m.cv THEN m.ed[i] ELSE g.i]]

\* lines 23-43
add_memory_vertices(m, g) ==
    LET ncv == 2 * m.cv IN
    IF ncv > max_vertices
    THEN [m EXCEPT !.cv = ncv, !.st = "fatal"]
    ELSE [m EXCEPT !.cv = ncv,
            !.pts = [i \in 0 .. (2 * ncv - 1) |->
                        IF i < 2 * m.cv THEN m.pts[i] ELSE g.d],
            !.ed = [i \in 0 .. (2 * ncv - 1) |->
                        IF i < 2 * m.cv THEN m.ed[i] ELSE g.i]]

add_memory_ds(m) ==
    LET ncds == 2 * m.cds IN
    IF ncds > max_delete_size
    THEN [m EXCEPT !.cds = ncds, !.st = "fatal"]
    ELSE [m EXCEPT !.cds = ncds, !.ds = [i \in 1 .. Len(m.ds) |-> m.ds[i]]]

\* ------------------------------------------------------------------------
\* plane(x,y,rsq), phase by phase.  a holds the arguments.

\* the locals at entry: "int cp,lp,up=0,up2,up3,*stackp(ds)"
Entry(pv, edv, ptsv, cv, cds) ==
    [p |-> pv, ed |-> edv, pts |-> ptsv, cv |-> cv, cds |-> cds, ds |-> <<>>,
     st |-> "run", up |-> 0, u |-> Fin(0), up2 |-> 0, u2 |-> Fin(0),
     up3 |-> 0, u3 |-> Fin(0), l |-> Fin(0), cp |-> 0, nw |-> <<>>]

\* WalkSucc without "if(up2==up3) return true;"
RECURSIVE WalkSuccNoMeet(_, _, _)
WalkSuccNoMeet(m, a, fuel) ==
    IF ~FLt(m.u2, Tol) THEN [m EXCEPT !.up = m.up2, !.u = m.u2]
    ELSE IF fuel = 0 THEN [m EXCEPT !.st = "hang"]
    ELSE LET n2 == succ(m.ed, m.up2)
             h == [m EXCEPT !.up2 = n2, !.u2 = P(m, a, n2)]
         IN WalkSuccNoMeet(h, a, fuel - 1)

\* "while(u2<tolerance) {up2=ed[2*up2];u2=pos(..);if(up2==up3) return true;}
\*  up=up2;u=u2;".  The loop reads nothing but up2, so once it has run more
\* often than there are slots it repeats for ever.
RECURSIVE WalkSucc(_, _, _)
WalkSucc(m, a, fuel) ==
    IF ~FLt(m.u2, Tol) THEN [m EXCEPT !.up = m.up2, !.u = m.u2]
    ELSE IF fuel = 0 THEN [m EXCEPT !.st = "hang"]
    ELSE LET n2 == succ(m.ed, m.up2)
             h == [m EXCEPT !.up2 = n2, !.u2 = P(m, a, n2)]
         IN IF n2 = m.up3 THEN [h EXCEPT !.st = "true"]
            ELSE WalkSucc(h, a, fuel - 1)

\* "while(u3<tolerance) {up3=ed[2*up3+1];u3=pos(..);if(up2==up3) return true;}
\*  up=up3;u=u3;"
RECURSIVE WalkPred(_, _, _)
WalkPred(m, a, fuel) ==
    IF ~FLt(m.u3, Tol) THEN [m EXCEPT !.up = m.up3, !.u = m.u3]
    ELSE IF fuel = 0 THEN [m EXCEPT !.st = "hang"]
    ELSE LET n3 == pred(m.ed, m.up3)
             h == [m EXCEPT !.up3 = n3, !.u3 = P(m, a, n3)]
         IN IF m.up2 = n3 THEN [h EXCEPT !.st = "true"]
            ELSE WalkPred(h, a, fuel - 1)

\* lines 133-152: find a vertex that is within the cutting plane
FindVertex(m, a) ==
    LET u0 == P(m, a, m.up) IN
    IF ~FLt(u0, Tol) THEN [m EXCEPT !.u = u0]
    ELSE LET n2 == succ(m.ed, m.up)
             n3 == pred(m.ed, m.up)
             h == [m EXCEPT !.u = u0, !.up2 = n2, !.u2 = P(m, a, n2),
                            !.up3 = n3, !.u3 = P(m, a, n3)]
         IN IF FGt(h.u2, h.u3) THEN WalkSucc(h, a, 2 * m.cv)
            ELSE WalkPred(h, a, 2 * m.cv)

\* lines 159-166: "while(u2>tolerance) {...}"
RECURSIVE SweepSucc(_, _)
SweepSucc(m, a) ==
    IF ~FGt(m.u2, Tol) THEN m
    ELSE LET g == IF Len(m.ds) = m.cds THEN add_memory_ds(m) ELSE m IN
         IF g.st # "run" THEN g
         ELSE LET n2 == succ(g.ed, g.up2)
                  h == [g EXCEPT !.ds = Append(g.ds, g.up2), !.up2 = n2,
                                 !.l = g.u2, !.u2 = P(g, a, n2)]
              IN IF n2 = g.up THEN [h EXCEPT !.st = "false"]
                 ELSE SweepSucc(h, a)

\* lines 156-166: push up and search in the succ direction
DeleteSucc(m, a) ==
    IF m.st # "run" THEN m
    ELSE LET n2 == succ(m.ed, m.up) IN
         SweepSucc([m EXCEPT !.ds = <<m.up>>, !.l = m.u, !.up2 = n2,
                             !.u2 = P(m, a, n2)], a)

\* the vertex where the edge lp -> q meets the plane:
\* "fac=1/(uq-l); pts[2*p]=(pts[2*lp]*uq-pts[2*q]*l)*fac; ..."
Intersect(ptsv, lp, q, uq, l) ==
    LET d == FSub(uq, l) IN
    << FMulRecip(FSub(FMul(ptsv[2 * lp], uq), FMul(ptsv[2 * q], l)), d),
       FMulRecip(FSub(FMul(ptsv[2 * lp + 1], uq), FMul(ptsv[2 * q + 1], l)), d) >>

\* CutSucc without "ed[2*up2+1]=p": the new vertex is not made the
\* predecessor of up2
CutSuccNoPred(m, g0) ==
    IF m.st # "run" THEN m
    ELSE IF FGt(m.u2, FNeg(Tol)) THEN [m EXCEPT !.cp = m.up2]
    ELSE LET g == IF m.p = m.cv THEN add_memory_vertices(m, g0) ELSE m IN
         IF g.st # "run" THEN g
         ELSE LET lp == pred(g.ed, g.up2)
                  np == Intersect(g.pts, lp, g.up2, g.u2, g.l)
              IN [g EXCEPT
                    !.pts = [g.pts EXCEPT ![2 * g.p] = np[1], ![2 * g.p + 1] = np[2]],
                    !.ed = [g.ed EXCEPT ![2 * g.p] = g.up2],
                    !.cp = g.p,
                    !.nw = Append(g.nw, <<g.p, g.cv>>),
                    !.p = g.p + 1]

\* lines 171-182: the end of the cut on the succ side
CutSucc(m, g0) ==
    IF m.st # "run" THEN m
    ELSE IF FGt(m.u2, FNeg(Tol)) THEN [m EXCEPT !.cp = m.up2]
    ELSE LET g == IF m.p = m.cv THEN add_memory_vertices(m, g0) ELSE m IN
         IF g.st # "run" THEN g
         ELSE LET lp == pred(g.ed, g.up2)
                  np == Intersect(g.pts, lp, g.up2, g.u2, g.l)
              IN [g EXCEPT
                    !.pts = [g.pts EXCEPT ![2 * g.p] = np[1], ![2 * g.p + 1] = np[2]],
                    !.ed = [g.ed EXCEPT ![2 * g.p] = g.up2, ![2 * g.up2 + 1] = g.p],
                    !.cp = g.p,
                    !.nw = Append(g.nw, <<g.p, g.cv>>),
                    !.p = g.p + 1]

\* lines 187-194: "while(u3>tolerance) {...}"
RECURSIVE SweepPred(_, _)
SweepPred(m, a) ==
    IF ~FGt(m.u3, Tol) THEN m
    ELSE LET g == IF Len(m.ds) = m.cds THEN add_memory_ds(m) ELSE m IN
         IF g.st # "run" THEN g
         ELSE LET n3 == pred(g.ed, g.up3)
                  h == [g EXCEPT !.ds = Append(g.ds, g.up3), !.up3 = n3,
                                 !.l = g.u3, !.u3 = P(g, a, n3)]
              IN IF n3 = g.up2 THEN h
                 ELSE SweepPred(h, a)

\* lines 186-194: search in the pred direction
DeletePred(m, a) ==
    IF m.st # "run" THEN m
    ELSE LET n3 == pred(m.ed, m.up) IN
         SweepPred([m EXCEPT !.l = m.u, !.up3 = n3, !.u3 = P(m, a, n3)], a)

\* CutPred with "ed[2*p]=up3" for "ed[2*p]=cp": the new vertex's successor
\* is its predecessor
CutPredSuccBack(m, g0) ==
    IF m.st # "run" THEN m
    ELSE IF FGt(m.u3, Tol)
    THEN [m EXCEPT !.ed = [m.ed EXCEPT ![2 * m.cp + 1] = m.up3, ![2 * m.up3] = m.cp]]
    ELSE LET g == IF m.p = m.cv THEN add_memory_vertices(m, g0) ELSE m IN
         IF g.st # "run" THEN g
         ELSE LET lp == succ(g.ed, g.up3)
                  np == Intersect(g.pts, lp, g.up3, g.u3, g.l)
                  e1 == [g.ed EXCEPT ![2 * g.p] = g.up3]
                  e2 == [e1 EXCEPT ![2 * g.cp + 1] = g.p]
                  e3 == [e2 EXCEPT ![2 * g.p + 1] = g.up3]
                  e4 == [e3 EXCEPT ![2 * g.up3] = g.p]
              IN [g EXCEPT
                    !.pts = [g.pts EXCEPT ![2 * g.p] = np[1], ![2 * g.p + 1] = np[2]],
                    !.ed = e4,
                    !.nw = Append(g.nw, <<g.p, g.cv>>),
                    !.p = g.p + 1]

\* lines 199-212: the end of the cut on the pred side
CutPred(m, g0) ==
    IF m.st # "run" THEN m
    ELSE IF FGt(m.u3, Tol)
    THEN [m EXCEPT !.ed = [m.ed EXCEPT ![2 * m.cp + 1] = m.up3, ![2 * m.up3] = m.cp]]
    ELSE LET g == IF m.p = m.cv THEN add_memory_vertices(m, g0) ELSE m IN
         IF g.st # "run" THEN g
         ELSE LET lp == succ(g.ed, g.up3)
                  np == Intersect(g.pts, lp, g.up3, g.u3, g.l)
                  e1 == [g.ed EXCEPT ![2 * g.p] = g.cp]
                  e2 == [e1 EXCEPT ![2 * g.cp + 1] = g.p]
                  e3 == [e2 EXCEPT ![2 * g.p + 1] = g.up3]
                  e4 == [e3 EXCEPT ![2 * g.up3] = g.p]
              IN [g EXCEPT
                    !.pts = [g.pts EXCEPT ![2 * g.p] = np[1], ![2 * g.p + 1] = np[2]],
                    !.ed = e4,
                    !.nw = Append(g.nw, <<g.p, g.cv>>),
                    !.p = g.p + 1]

\* line 215: "for(int *sp=ds;sp<stackp;sp++) ed[*sp*2]=-1;"
RECURSIVE MarkFrom(_, _, _)
MarkFrom(edv, ds, i) ==
    IF i > Len(ds) THEN edv
    ELSE MarkFrom([edv EXCEPT ![2 * ds[i]] = -1], ds, i + 1)

\* line 219: "while(ed[2*--p]==-1);" gives the new p, or -1 when the loop
\* runs off the front of ed
RECURSIVE TailSkip(_, _)
TailSkip(edv, pv) ==
    IF pv - 1 < 0 THEN -1
    ELSE IF edv[2 * (pv - 1)] = -1 THEN TailSkip(edv, pv - 1)
    ELSE pv - 1

\* Compact without "pts[2*up]=pts[2*p]; pts[2*up+1]=pts[2*p+1];": a moved
\* vertex takes the coordinates of the slot it moves to
RECURSIVE CompactNoCoords(_)
CompactNoCoords(m) ==
    IF Len(m.ds) = 0 THEN [m EXCEPT !.st = "true"]
    ELSE LET q == TailSkip(m.ed, m.p) IN
         IF q < 0 THEN [m EXCEPT !.st = "oob"]
         ELSE LET upv == m.ds[Len(m.ds)]
                  rest == SubSeq(m.ds, 1, Len(m.ds) - 1)
              IN IF upv < q
                 THEN LET e1 == [m.ed EXCEPT ![2 * m.ed[2 * q] + 1] = upv]
                          e2 == [e1 EXCEPT ![2 * e1[2 * q + 1]] = upv]
                          e3 == [e2 EXCEPT ![2 * upv] = e2[2 * q]]
                          e4 == [e3 EXCEPT ![2 * upv + 1] = e3[2 * q + 1]]
                      IN CompactNoCoords([m EXCEPT
                            !.ed = e4, !.p = q, !.ds = rest, !.up = upv])
                 ELSE CompactNoCoords([m EXCEPT !.p = q + 1, !.ds = rest,
                                                !.up = upv])

\* lines 218-229: remove the marked vertices from the memory structure
RECURSIVE Compact(_)
Compact(m) ==
    IF Len(m.ds) = 0 THEN [m EXCEPT !.st = "true"]
    ELSE LET q == TailSkip(m.ed, m.p) IN
         IF q < 0 THEN [m EXCEPT !.st = "oob"]
         ELSE LET upv == m.ds[Len(m.ds)]
                  rest == SubSeq(m.ds, 1, Len(m.ds) - 1)
              IN IF upv < q
                 THEN LET e1 == [m.ed EXCEPT ![2 * m.ed[2 * q] + 1] = upv]
                          e2 == [e1 EXCEPT ![2 * e1[2 * q + 1]] = upv]
                          e3 == [e2 EXCEPT ![2 * upv] = e2[2 * q]]
                          e4 == [e3 EXCEPT ![2 * upv + 1] = e3[2 * q + 1]]
                      IN Compact([m EXCEPT
                            !.ed = e4,
                            !.pts = [m.pts EXCEPT ![2 * upv] = m.pts[2 * q],
                                                  ![2 * upv + 1] = m.pts[2 * q + 1]],
                            !.p = q, !.ds = rest, !.up = upv])
                 ELSE Compact([m EXCEPT !.p = q + 1, !.ds = rest, !.up = upv])

\* lines 214-230: mark, compact, "return true"
DeleteMarked(m) ==
    IF m.st # "run" THEN m
    ELSE Compact([m EXCEPT !.ed = MarkFrom(m.ed, m.ds, 1)])

\* the whole of plane(x,y,rsq) on the cell (pv, edv, ptsv, cv, cds); g0 is
\* what freshly allocated memory holds
RunPlane(pv, edv, ptsv, cv, cds, a, g0) ==
    DeleteMarked(CutPred(DeletePred(CutSucc(DeleteSucc(
        FindVertex(Entry(pv, edv, ptsv, cv, cds), a), a), g0), a), g0))

\* ------------------------------------------------------------------------
\* Queries.  Each walks the cycle from vertex 0; fuel bounds a walk that never
\* comes back to 0, whose result is then Hang.

Hang == <<3, 0, 0>>

\* lines 109-118: the largest pts[2v]^2+pts[2v+1]^2; "double" kept unscaled
RECURSIVE MaxFrom(_, _, _, _)
MaxFrom(ptsv, pv, v, r) ==
    IF v >= pv THEN r
    ELSE LET s == FAdd(FMul(ptsv[2 * v], ptsv[2 * v]),
                       FMul(ptsv[2 * v + 1], ptsv[2 * v + 1]))
         IN MaxFrom(ptsv, pv, v + 1, IF FGt(s, r) THEN s ELSE r)

max_radius_squared(pv, edv, ptsv) ==
    Scaled(MaxFrom(ptsv, pv, 1, FAdd(FMul(ptsv[0], ptsv[0]), FMul(ptsv[1], ptsv[1]))), 1)

\* lines 238-244: the do-while of perimeter, entered at k
RECURSIVE PerimFrom(_, _, _, _, _)
PerimFrom(edv, ptsv, k, perim, fuel) ==
    LET l == succ(edv, k)
        dx == FSub(ptsv[2 * k], ptsv[2 * l])
        dy == FSub(ptsv[2 * k + 1], ptsv[2 * l + 1])
        q == FAdd(perim, FSqrt(FAdd(FMul(dx, dx), FMul(dy, dy))))
    IN IF l = 0 THEN Scaled(q, 2)
       ELSE IF fuel = 0 THEN Hang
       ELSE PerimFrom(edv, ptsv, l, q, fuel - 1)

perimeter(pv, edv, ptsv, cv) ==
    IF pv = 0 THEN <<0, 0, 1>> ELSE PerimFrom(edv, ptsv, 0, Fin(0), 2 * cv)

\* lines 255-260: the while loop of area and of centroid, entered at k with
\* the fan edge (dx1,dy1); acc = <<area, cx, cy>>
RECURSIVE FanFrom(_, _, _, _, _, _, _)
FanFrom(edv, ptsv, k, dx1, dy1, acc, fuel) ==
    IF k = 0 THEN acc
    ELSE IF fuel = 0 THEN <<NaN, NaN, NaN, "hang">>
    ELSE LET dx2 == FSub(ptsv[2 * k], ptsv[0])
             dy2 == FSub(ptsv[2 * k + 1], ptsv[1])
             ar == FSub(FMul(dx1, dy2), FMul(dx2, dy1))
         IN FanFrom(edv, ptsv, succ(edv, k), dx2, dy2,
                    << FAdd(acc[1], ar),
                       FAdd(acc[2], FMul(ar, FAdd(dx1, dx2))),
                       FAdd(acc[3], FMul(ar, FAdd(dy1, dy2))) >>,
                    fuel - 1)

\* the sums of the triangle fan anchored at vertex 0
Fan(edv, ptsv, cv) ==
    LET k == succ(edv, 0) IN
    FanFrom(edv, ptsv, succ(edv, k),
            FSub(ptsv[2 * k], ptsv[0]), FSub(ptsv[2 * k + 1], ptsv[1]),
            <<Fin(0), Fin(0), Fin(0)>>, 2 * cv)

\* lines 250-262
area(pv, edv, ptsv, cv) ==
    IF pv = 0 THEN <<0, 0, 1>>
    ELSE LET f == Fan(edv, ptsv, cv) IN
         IF Len(f) = 4 THEN Hang ELSE Scaled(f[1], 8)

\* "tarea=third/tarea; cx=0.5*(x+cx*tarea);" for the anchor coordinate x, the
\* accumulator c and the fan's total area t: (x + c/(3t))/2 = (3tx+c)/(6t)
CentroidCoord(x, c, t) ==
    IF IsFin(x) /\ IsFin(c) /\ IsFin(t) /\ t[2] # 0
    THEN <<0, 3 * t[2] * x[2] + c[2], 6 * t[2]>>
    ELSE LET fac == IF IsNaN(t) THEN NaN
                    ELSE IF t[1] = 1 THEN Fin(0)
                    ELSE IF t[2] = 0 THEN Inf(1)
                    ELSE Fin(Sgn(t[2]))
         IN Scaled(FAdd(x, FMul(c, fac)), 2)

\* lines 266-286
centroid(pv, edv, ptsv, cv) ==
    IF pv = 0 THEN << <<0, 0, 1>>, <<0, 0, 1>> >>
    ELSE LET f == Fan(edv, ptsv, cv) IN
         IF Len(f) = 4 THEN <<Hang, Hang>>
         ELSE << CentroidCoord(ptsv[0], f[2], f[1]),
                 CentroidCoord(ptsv[1], f[3], f[1]) >>

\* x+0.5*pts[i] for a displacement x
Shifted(x, c) == Scaled(FAdd(Fin(2 * x), c), 2)

\* lines 81-84: one "%g %g\n" line per vertex of the walk from k
RECURSIVE GnuplotFrom(_, _, _, _, _, _)
GnuplotFrom(edv, ptsv, d, k, out, fuel) ==
    LET o == Append(out, <<Shifted(d.x, ptsv[2 * k]), Shifted(d.y, ptsv[2 * k + 1])>>)
        n == succ(edv, k)
    IN IF n = 0 THEN o
       ELSE IF fuel = 0 THEN Append(o, <<Hang>>)
       ELSE GnuplotFrom(edv, ptsv, d, n, o, fuel - 1)

\* lines 78-86: the lines written; <<>> as a line is the blank line
draw_gnuplot(pv, edv, ptsv, cv, d) ==
    IF pv = 0 THEN <<>>
    ELSE GnuplotFrom(edv, ptsv, d, 0, <<>>, 2 * cv)
         \o << <<Shifted(d.x, ptsv[0]), Shifted(d.y, ptsv[1])>>, <<>> >>

\* lines 96-102: one sphere and one cylinder per vertex of the walk from k
RECURSIVE PovFrom(_, _, _, _, _, _)
PovFrom(edv, ptsv, d, k, out, fuel) ==
    LET n == succ(edv, k)
        a == <<Shifted(d.x, ptsv[2 * k]), Shifted(d.y, ptsv[2 * k + 1]), d.z>>
        b == <<Shifted(d.x, ptsv[2 * n]), Shifted(d.y, ptsv[2 * n + 1]), d.z>>
        o == out \o << <<"sphere", a>>, <<"cylinder", a, b>> >>
    IN IF n = 0 THEN o
       ELSE IF fuel = 0 THEN Append(o, <<Hang>>)
       ELSE PovFrom(edv, ptsv, d, n, o, fuel - 1)

\* lines 93-103
draw_pov(pv, edv, ptsv, cv, d) ==
    IF pv = 0 THEN <<>> ELSE PovFrom(edv, ptsv, d, 0, <<>>, 2 * cv)

\* ------------------------------------------------------------------------
\* output_custom.  A format is a sequence of characters, followed by the
\* terminating NUL.  The output is a sequence of items: a character written by
\* putc, fputs or the literal part of a fprintf format, or Num(conv, v) for a
\* number v written under the conversion conv.  c is the cell
\* [p, ed, pts, cv] and q the particle [i, x, y, r].

NUL == "NUL"

\* "*fmp" for fmp = format+(k-1)
CharAt(fmt, k) == IF k <= Len(fmt) THEN fmt[k] ELSE NUL

\* "0.25*max_radius_squared()"
Quarter(v) == IF v[1] = 0 THEN <<0, v[2], 4 * v[3]>> ELSE v

\* "x+cx" for a particle coordinate x
Offset(x, v) == IF v[1] = 0 THEN <<0, v[2] + x * v[3], v[3]>> ELSE v

\* lines 306-331 and 338: what the switch writes for the character ch that
\* follows a percent sign
\* the text that fprintf writes for the value v under the conversion conv,
\* kept symbolic
Num(conv, v) == ToString(<<conv, v>>)

Control(ch, q, c) ==
    IF ch = "i" THEN << Num("%d", q.i) >>
    ELSE IF ch = "x" THEN << Num("%g", Scaled(Fin(q.x), 1)) >>
    ELSE IF ch = "y" THEN << Num("%g", Scaled(Fin(q.y), 1)) >>
    ELSE IF ch = "q" THEN << Num("%g", Scaled(Fin(q.x), 1)), " ",
                             Num("%g", Scaled(Fin(q.y), 1)) >>
    ELSE IF ch = "r" THEN << Num("%g", Scaled(Fin(q.r), 1)) >>
    ELSE IF ch = "w" THEN << Num("%d", c.p) >>
    ELSE IF ch = "m"
         THEN << Num("%g", Quarter(max_radius_squared(c.p, c.ed, c.pts))) >>
    ELSE IF ch = "p" THEN << Num("%g", perimeter(c.p, c.ed, c.pts, c.cv)) >>
    ELSE IF ch = "a" THEN << Num("%g", area(c.p, c.ed, c.pts, c.cv)) >>
    ELSE IF ch = "c"
         THEN LET z == centroid(c.p, c.ed, c.pts, c.cv)
              IN << Num("%g", z[1]), " ", Num("%g", z[2]) >>
    ELSE IF ch = "C"
         THEN LET z == centroid(c.p, c.ed, c.pts, c.cv)
              IN << Num("%g", Offset(q.x, z[1])), " ",
                    Num("%g", Offset(q.y, z[2])) >>
    ELSE << "%", ch >>

\* A variant of AfterPercent that writes a percent sign for one that ends the
\* format.
AfterPercentLiteral(fmt, k, q, c) ==
    IF CharAt(fmt, k + 1) = NUL
    THEN [k |-> k + 1, out |-> << "%" >>]
    ELSE [k |-> k + 2, out |-> Control(CharAt(fmt, k + 1), q, c)]

\* lines 302-339 for "*fmp=='%'" at position k: what is written and the
\* position after the loop's "fmp++".  At the terminator, "case 0: fmp--"
\* steps back onto the percent sign and writes nothing.
AfterPercent(fmt, k, q, c) ==
    IF CharAt(fmt, k + 1) = NUL
    THEN [k |-> k + 1, out |-> << >>]
    ELSE [k |-> k + 2, out |-> Control(CharAt(fmt, k + 1), q, c)]

\* lines 301-341: the while loop from position k
RECURSIVE Scan(_, _, _, _, _)
Scan(fmt, k, q, c, out) ==
    IF CharAt(fmt, k) = NUL THEN out
    ELSE IF fmt[k] = "%"
         THEN LET r == AfterPercent(fmt, k, q, c)
              IN Scan(fmt, r.k, q, c, out \o r.out)
    ELSE Scan(fmt, k + 1, q, c, out \o << fmt[k] >>)

\* lines 299-344
output_custom(fmt, q, c) == Scan(fmt, 1, q, c, << >>) \o << "\n" >>

\* ------------------------------------------------------------------------
\* The cell as a state machine.

\* lines 7-11: the constructor allocates the arenas and sets the capacities;
\* it writes neither p nor any element
Init ==
    \E g \in Garbage :
        /\ heap = g
        /\ p \in UninitP
        /\ ed = [i \in 0 .. (2 * init_vertices - 1) |-> g.i]
        /\ pts = [i \in 0 .. (2 * init_vertices - 1) |-> g.d]
        /\ calls = 0
        /\ current_vertices = init_vertices
        /\ current_delete_size = init_delete_size
        /\ status = "ok"
        /\ inited = FALSE
        /\ emptied = FALSE
        /\ last = [op |-> "new"]

\* lines 65-68
InitPts(ptsv, a) ==
    [i \in DOMAIN ptsv |->
        IF i = 0 \/ i = 6 THEN Fin(2 * a.xmin)
        ELSE IF i = 2 \/ i = 4 THEN Fin(2 * a.xmax)
        ELSE IF i = 1 \/ i = 3 THEN Fin(2 * a.ymin)
        ELSE IF i = 5 \/ i = 7 THEN Fin(2 * a.ymax)
        ELSE ptsv[i]]

\* A variant of InitEd that writes the successor entries only.
InitEdSuccOnly(edv) ==
    [i \in DOMAIN edv |->
        IF i < 8 /\ i % 2 = 0 THEN <<1, 3, 2, 0, 3, 1, 0, 2>>[i + 1] ELSE edv[i]]

\* lines 69-70: "*q=1;q[1]=3;q[2]=2;q[3]=0;q[4]=3;q[5]=1;q[6]=0;q[7]=2;"
InitEd(edv) ==
    [i \in DOMAIN edv |->
        IF i < 8 THEN <<1, 3, 2, 0, 3, 1, 0, 2>>[i + 1] ELSE edv[i]]

\* line 64: "p=4"
InitP == 4

\* lines 63-71
init(a) ==
    /\ status = "ok"
    /\ calls' = calls + 1
    /\ p' = InitP
    /\ pts' = InitPts(pts, a)
    /\ ed' = InitEd(ed)
    /\ inited' = TRUE
    /\ emptied' = FALSE
    /\ last' = [op |-> "init", a |-> a]
    /\ UNCHANGED <<current_vertices, current_delete_size, status, heap>>

\* the number of live vertices with pos > tolerance for the arguments a
NOut(pv, ptsv, a) ==
    Cardinality({v \in 0 .. (pv - 1) : FGt(pos(ptsv, a.x, a.y, a.rsq, v), Tol)})

\* the number of live vertices with pos <= tolerance for the arguments a
NLe(pv, ptsv, a) ==
    Cardinality({v \in 0 .. (pv - 1) : FLe(pos(ptsv, a.x, a.y, a.rsq, v), Tol)})

\* lines 126-231.  A cell that init has not set up holds indeterminate
\* indices; plane is called on initialised cells only.  last records what the
\* call saw: n, the vertex count at entry; nOut and nLe; whether the cell was
\* left as it was (same); whether an earlier call had returned false.
plane(a) ==
    /\ status = "ok"
    /\ inited
    /\ calls' = calls + 1
    /\ \E m \in {RunPlane(p, ed, pts, current_vertices, current_delete_size, a, heap)} :
        /\ p' = m.p
        /\ ed' = m.ed
        /\ pts' = m.pts
        /\ current_vertices' = m.cv
        /\ current_delete_size' = m.cds
        /\ status' = IF m.st \in {"true", "false"} THEN "ok" ELSE m.st
        /\ emptied' = (emptied \/ m.st = "false")
        /\ last' = [op |-> "plane",
                    ret |-> IF m.st \in {"true", "false"} THEN m.st ELSE "none",
                    n |-> p,
                    nOut |-> NOut(p, pts, a),
                    nLe |-> NLe(p, pts, a),
                    nw |-> m.nw,
                    same |-> (m.p = p /\ m.ed = ed /\ m.pts = pts),
                    afterEmpty |-> emptied]
    /\ UNCHANGED <<inited, heap>>

\* a query runs on an initialised cell, or on one whose p is 0, where it
\* follows no index
CanQuery == status = "ok" /\ (inited \/ p = 0)

\* the displacements handed to the emitters
DrawArgs == { [x |-> 0, y |-> 0, z |-> 0], [x |-> 1, y |-> -1, z |-> 2] }

Query(name, value) ==
    /\ CanQuery
    /\ last' = [op |-> name, ret |-> value]
    /\ UNCHANGED <<p, ed, pts, current_vertices, current_delete_size, status,
                   inited, heap, calls, emptied>>

MaxRadiusSquared == Query("max_radius_squared", max_radius_squared(p, ed, pts))

Perimeter == Query("perimeter", perimeter(p, ed, pts, current_vertices))

Area == Query("area", area(p, ed, pts, current_vertices))

Centroid == Query("centroid", centroid(p, ed, pts, current_vertices))

DrawGnuplot == \E d \in DrawArgs :
    Query("draw_gnuplot", draw_gnuplot(p, ed, pts, current_vertices, d))

DrawPov == \E d \in DrawArgs :
    Query("draw_pov", draw_pov(p, ed, pts, current_vertices, d))

DoInit == calls < MaxCalls /\ \E a \in InitArgs : init(a)

DoPlane == calls < MaxCalls /\ \E a \in PlaneArgs : plane(a)

\* The cell under init and plane.
Next ==
    \/ DoInit
    \/ DoPlane

Spec == Init /\ [][Next]_vars

\* The query surface, on the cells that init and a few planes along the x
\* axis produce.
QueryPlaneArgs == {a \in PlaneArgs : a.y = 0 /\ a.x >= 0}

DoPlaneQ == calls < MaxCalls /\ \E a \in QueryPlaneArgs : plane(a)

NextQ ==
    \/ DoInit
    \/ DoPlaneQ
    \/ MaxRadiusSquared
    \/ Perimeter
    \/ Area
    \/ Centroid
    \/ DrawGnuplot
    \/ DrawPov

SpecQ == Init /\ [][NextQ]_vars

\* Growth of the arenas: longer runs of planes that each nick one corner.
MaxGrowCalls == 6

GrowPlaneArgs == {a \in PlaneArgs : a.x # 0 /\ a.y # 0 /\ a.rsq \in {2, 3}}

DoPlaneGrow == calls < MaxGrowCalls /\ \E a \in GrowPlaneArgs : plane(a)

NextGrow ==
    \/ DoInit
    \/ DoPlaneGrow

SpecGrow == Init /\ [][NextGrow]_vars

\* Custom output.  A format has at most MaxFmtLen characters.
MaxFmtLen == 3

\* the control characters, the percent sign and one other character
Chars == {"%", "i", "x", "y", "q", "r", "w", "m", "p", "a", "c", "C", "z"}

Formats == UNION { [1 .. n -> Chars] : n \in 0 .. MaxFmtLen }

OutArgs == { [i |-> 7, x |-> 1, y |-> -2, r |-> 3] }

\* output_custom changes nothing in the cell, so a second call in a row
\* reaches no new cell: one call is taken after each construction, init or
\* plane.
OutputCustom ==
    /\ CanQuery
    /\ last.op # "output_custom"
    /\ \E f \in Formats, q \in OutArgs :
         last' = [op |-> "output_custom", fmt |-> f, q |-> q,
                  ret |-> output_custom(f, q,
                             [p |-> p, ed |-> ed, pts |-> pts,
                              cv |-> current_vertices])]
    /\ UNCHANGED <<p, ed, pts, current_vertices, current_delete_size, status,
                   inited, heap, calls, emptied>>

\* at most MaxOutCalls calls of init and plane are made on a cell here
MaxOutCalls == 2

DoInitOut == calls < MaxOutCalls /\ \E a \in InitArgs : init(a)

DoPlaneOut == calls < MaxOutCalls /\ \E a \in QueryPlaneArgs : plane(a)

NextOut ==
    \/ DoInitOut
    \/ DoPlaneOut
    \/ OutputCustom

SpecOut == Init /\ [][NextOut]_vars

\* One plane call in detail.  Here last keeps the arguments of the call and
\* the cell it was made on (pre), and whether the cell descends from an init
\* with xmin < xmax and ymin < ymax (rect).
MaxCutCalls == 3

IsRect(a) == a.xmin < a.xmax /\ a.ymin < a.ymax

planeTraced(a) ==
    /\ status = "ok"
    /\ inited
    /\ calls' = calls + 1
    /\ \E m \in {RunPlane(p, ed, pts, current_vertices, current_delete_size, a, heap)} :
        /\ p' = m.p
        /\ ed' = m.ed
        /\ pts' = m.pts
        /\ current_vertices' = m.cv
        /\ current_delete_size' = m.cds
        /\ status' = IF m.st \in {"true", "false"} THEN "ok" ELSE m.st
        /\ emptied' = (emptied \/ m.st = "false")
        /\ last' = [op |-> "plane",
                    ret |-> IF m.st \in {"true", "false"} THEN m.st ELSE "none",
                    a |-> a,
                    pre |-> [p |-> p, ed |-> ed, pts |-> pts,
                             cv |-> current_vertices,
                             cds |-> current_delete_size],
                    rect |-> IF last.op = "init" THEN IsRect(last.a)
                             ELSE last.op = "plane" /\ last.rect]
    /\ UNCHANGED <<inited, heap>>

\* here the rectangles of init reach out to MaxCutCoord
MaxCutCoord == 2

CutInitArgs ==
    UNION { [xmin : {-c}, xmax : {-c, c}, ymin : {-c}, ymax : {-c, c}] :
            c \in 1 .. MaxCutCoord }

DoInitCut == calls < MaxCutCalls /\ \E a \in CutInitArgs : init(a)

DoPlaneCut == calls < MaxCutCalls /\ \E a \in PlaneArgs : planeTraced(a)

NextCut ==
    \/ DoInitCut
    \/ DoPlaneCut

SpecCut == Init /\ [][NextCut]_vars

\* Two runs side by side.  The cell of the state variables starts with the
\* capacities init_vertices and init_delete_size and grows; last.big is a
\* second cell that takes the same calls with the capacities max_vertices and
\* max_delete_size from the start, so that it never grows.
MaxPairCalls == 4

\* the arena f in an allocation of n vertices, the new part holding g
Widen(f, n, g) == [i \in 0 .. (2 * n - 1) |-> IF i \in DOMAIN f THEN f[i] ELSE g]

\* what the fresh memory of the second cell holds: not what the first
\* cell's holds
OtherHeap == CHOOSE g \in Garbage : g # heap

\* the second cell before the call: the one the last plane call left, or,
\* after init, the cell init has set up
BigBefore ==
    IF last.op = "plane" THEN last.big
    ELSE [p |-> p, ed |-> Widen(ed, max_vertices, OtherHeap.i),
          pts |-> Widen(pts, max_vertices, OtherHeap.d)]

planePair(a) ==
    /\ status = "ok"
    /\ inited
    /\ calls' = calls + 1
    /\ \E m \in {RunPlane(p, ed, pts, current_vertices, current_delete_size, a, heap)},
          b \in {RunPlane(BigBefore.p, BigBefore.ed, BigBefore.pts,
                          max_vertices, max_delete_size, a, OtherHeap)} :
        /\ p' = m.p
        /\ ed' = m.ed
        /\ pts' = m.pts
        /\ current_vertices' = m.cv
        /\ current_delete_size' = m.cds
        /\ status' = IF m.st \in {"true", "false"} THEN "ok" ELSE m.st
        /\ emptied' = (emptied \/ m.st = "false")
        /\ last' = [op |-> "plane",
                    ret |-> m.st,
                    big |-> [p |-> b.p, ed |-> b.ed, pts |-> b.pts],
                    bigret |-> b.st,
                    grewVertices |-> m.cv > current_vertices,
                    grewStack |-> m.cds > current_delete_size]
    /\ UNCHANGED <<inited, heap>>

DoInitPair == calls < MaxPairCalls /\ \E a \in InitArgs : init(a)

DoPlanePair == calls < MaxPairCalls /\ \E a \in PlaneArgs : planePair(a)

NextPair ==
    \/ DoInitPair
    \/ DoPlanePair

SpecPair == Init /\ [][NextPair]_vars

\* ------------------------------------------------------------------------
\* Properties of the cell's structure.

\* every adjacency entry of a live vertex is a live index
InRange(pv, edv) == \A i \in 0 .. (2 * pv - 1) : edv[i] \in 0 .. (pv - 1)

\* k, succ(k), succ(succ(k)), ...: n vertices
RECURSIVE Orbit(_, _, _)
Orbit(edv, k, n) ==
    IF n = 0 THEN <<>> ELSE <<k>> \o Orbit(edv, succ(edv, k), n - 1)

\* from 0, succ visits every index of [0,p) once and then returns to 0
SingleCycle(pv, edv) ==
    /\ InRange(pv, edv)
    /\ \E o \in {Orbit(edv, 0, pv)} :
        /\ {o[i] : i \in 1 .. pv} = 0 .. (pv - 1)
        /\ succ(edv, o[pv]) = 0

\* succ and pred are inverse to each other on [0,p)
MutualInverse(pv, edv) ==
    /\ InRange(pv, edv)
    /\ \A v \in 0 .. (pv - 1) :
        succ(edv, pred(edv, v)) = v /\ pred(edv, succ(edv, v)) = v

\* the last call was plane, and it returned
PlaneReturned == status = "ok" /\ last.op = "plane"

\* C1: a plane call that finds every live vertex outside (pos > tolerance)
\* returns false and leaves p = 0, so that area() is then 0.
C1_TotalClip ==
    (PlaneReturned /\ last.n > 0 /\ last.nOut = last.n)
        => (last.ret = "false" /\ p = 0
            /\ IsZero(area(p, ed, pts, current_vertices)))

\* C2: a plane call that finds every live vertex with pos <= tolerance
\* returns true and leaves p, the coordinates and the adjacency unchanged.
C2_NonCuttingNoOp ==
    (PlaneReturned /\ last.nLe = last.n) => (last.ret = "true" /\ last.same)

\* C3: after init and plane calls that each returned true, succ from 0 visits
\* every index of [0,p) exactly once and returns to 0.
C3_SingleCycle ==
    (inited /\ status = "ok" /\ ~emptied) => SingleCycle(p, ed)

\* a cut that appended two vertices, after an earlier call
C3_Witness ==
    /\ inited /\ status = "ok" /\ ~emptied
    /\ calls >= 3
    /\ last.op = "plane" /\ last.ret = "true"
    /\ Len(last.nw) = 2
    /\ p >= 5

\* C4: after init and after every plane call that returned true, succ and
\* pred are mutually inverse on [0,p).
C4_MutualInverse ==
    (status = "ok" /\ (last.op = "init" \/ (last.op = "plane" /\ last.ret = "true")))
        => MutualInverse(p, ed)

\* a cut that removed two vertices and appended two, so that the compaction
\* moved vertices
C4_Witness ==
    /\ PlaneReturned /\ last.ret = "true"
    /\ last.nOut = 2
    /\ Len(last.nw) = 2
    /\ p = last.n

\* C5: once a plane call has returned false, every later plane call (no init
\* in between) leaves the cell unchanged and returns false again.
C5_EmptinessTerminal ==
    (PlaneReturned /\ last.afterEmpty) => (last.ret = "false" /\ last.same)

\* ------------------------------------------------------------------------
\* Queries.

\* C6: on a cell whose p is 0, max_radius_squared, perimeter and area return
\* 0, centroid returns (0,0), and draw_gnuplot and draw_pov write nothing.
C6_EmptyQueries ==
    (status = "ok" /\ p = 0) =>
        /\ last.op \in {"max_radius_squared", "perimeter", "area"}
              => IsZero(last.ret)
        /\ last.op = "centroid" => (IsZero(last.ret[1]) /\ IsZero(last.ret[2]))
        /\ last.op \in {"draw_gnuplot", "draw_pov"} => last.ret = << >>

\* the triangle fan anchored at vertex 0 sums to area zero
ZeroFanArea == Fan(ed, pts, current_vertices)[1] = Fin(0)

\* C7: centroid of an initialised cell with p > 0 whose fan area is zero
\* returns (0,0).
C7_ZeroAreaCentroid ==
    (status = "ok" /\ inited /\ p > 0 /\ last.op = "centroid" /\ ZeroFanArea)
        => (IsZero(last.ret[1]) /\ IsZero(last.ret[2]))

\* ------------------------------------------------------------------------
\* init.

\* C8: whatever the cell was before, after init(xmin,xmax,ymin,ymax) p is 4,
\* the vertices are (xmin,ymin), (xmax,ymin), (xmax,ymax), (xmin,ymax) in that
\* order, the successors are 1,2,3,0 and the predecessors 3,0,1,2.  (A stored
\* coordinate is twice the argument.)
C8_InitResult ==
    last.op = "init" =>
        /\ p = 4
        /\ pts[0] = Fin(2 * last.a.xmin) /\ pts[1] = Fin(2 * last.a.ymin)
        /\ pts[2] = Fin(2 * last.a.xmax) /\ pts[3] = Fin(2 * last.a.ymin)
        /\ pts[4] = Fin(2 * last.a.xmax) /\ pts[5] = Fin(2 * last.a.ymax)
        /\ pts[6] = Fin(2 * last.a.xmin) /\ pts[7] = Fin(2 * last.a.ymax)
        /\ \A v \in 0 .. 3 : succ(ed, v) = (v + 1) % 4 /\ pred(ed, v) = (v + 3) % 4

\* init has run on a cell that earlier planes had grown and reshaped
C8_Witness ==
    /\ last.op = "init"
    /\ calls >= 3
    /\ current_vertices > init_vertices
    /\ last.a.xmax = MaxCoord /\ last.a.ymax = MaxCoord

\* ------------------------------------------------------------------------
\* Capacity.

RECURSIVE IsDoubling(_, _)
\* n is base times a power of two
IsDoubling(n, base) ==
    IF n = base THEN TRUE
    ELSE IF n < base \/ n % 2 # 0 THEN FALSE
    ELSE IsDoubling(n \div 2, base)

CapacityOK ==
    /\ 0 <= p /\ p <= current_vertices
    /\ IsDoubling(current_vertices, init_vertices)
    /\ (status = "ok" => current_vertices <= max_vertices)
    /\ (last.op = "plane" =>
            \A i \in 1 .. Len(last.nw) : last.nw[i][1] < last.nw[i][2])

\* C9 as stated: in every reachable state 0 <= p <= current_vertices,
\* current_vertices is the initial capacity times a power of two and is at
\* most max_vertices while execution continues, and every new vertex is
\* written at an index below current_vertices.
C9_CapacityEverywhere == CapacityOK

\* From the first init call on, the capacity bounds hold.
CapacityAfterInit == inited => CapacityOK

\* the arena has grown to max_vertices and the next growth has stopped the
\* program
GrowthStopped ==
    /\ inited
    /\ status = "fatal"
    /\ current_vertices = 2 * max_vertices
    /\ p = max_vertices

\* ------------------------------------------------------------------------
\* output_custom.

RECURSIVE LoneTail(_, _)
\* the format's last character is a percent sign that no earlier percent
\* sign has taken as its control character
LoneTail(fmt, k) ==
    IF k > Len(fmt) THEN FALSE
    ELSE IF fmt[k] # "%" THEN LoneTail(fmt, k + 1)
    ELSE IF k = Len(fmt) THEN TRUE
    ELSE LoneTail(fmt, k + 2)

\* the format ends in a free percent sign followed by a character that is no
\* control character
UnknownTail(fmt) ==
    /\ Len(fmt) >= 2
    /\ fmt[Len(fmt)] = "z"
    /\ LoneTail(SubSeq(fmt, 1, Len(fmt) - 1), 1)

\* the output of the last call for the format f, without the final newline
OutOf(f) ==
    Scan(f, 1, last.q,
         [p |-> p, ed |-> ed, pts |-> pts, cv |-> current_vertices], << >>)

\* C10 as stated: a trailing percent sign is written as a percent sign, and a
\* percent sign followed by an unknown character X is written as %X.
C10_TrailingPercentLiteral ==
    last.op = "output_custom" =>
        /\ LoneTail(last.fmt, 1) =>
              last.ret = OutOf(SubSeq(last.fmt, 1, Len(last.fmt) - 1))
                            \o << "%", "\n" >>
        /\ UnknownTail(last.fmt) =>
              last.ret = OutOf(SubSeq(last.fmt, 1, Len(last.fmt) - 2))
                            \o << "%", "z", "\n" >>

\* C10, amended: a trailing percent sign writes nothing, and a percent sign
\* followed by an unknown character X is written as %X.
C10_TrailingPercentDropped ==
    last.op = "output_custom" =>
        /\ LoneTail(last.fmt, 1) =>
              last.ret = OutOf(SubSeq(last.fmt, 1, Len(last.fmt) - 1))
                            \o << "\n" >>
        /\ UnknownTail(last.fmt) =>
              last.ret = OutOf(SubSeq(last.fmt, 1, Len(last.fmt) - 2))
                            \o << "%", "z", "\n" >>

\* a format of a cell statistic followed by a trailing percent sign has been
\* written for an initialised cell
C10_Witness ==
    /\ last.op = "output_custom"
    /\ inited
    /\ last.fmt = << "%", "w", "%" >>
    /\ last.ret = << Num("%d", p), "\n" >>

\* ------------------------------------------------------------------------
\* One plane call, phase by phase, on the cell and the arguments that last
\* records.

\* a traced plane call has returned
Traced == status = "ok" /\ last.op = "plane"

\* pos of the pre-call vertex v
PosOf(v) == pos(last.pre.pts, last.a.x, last.a.y, last.a.rsq, v)

PreVertices == 0 .. (last.pre.p - 1)

OutsideSet == {v \in PreVertices : FGt(PosOf(v), Tol)}

\* the vertices of O form one arc of the pre-call cycle
OneArc(O) == Cardinality({v \in O : pred(last.pre.ed, v) \notin O}) <= 1

AfterFind ==
    FindVertex(Entry(last.pre.p, last.pre.ed, last.pre.pts, last.pre.cv,
                     last.pre.cds), last.a)

AfterDeleteSucc == DeleteSucc(AfterFind, last.a)

AfterCutSucc == CutSucc(AfterDeleteSucc, heap)

AfterDeletePred == DeletePred(AfterCutSucc, last.a)

AfterCutPred == CutPred(AfterDeletePred, heap)

\* the vertices pushed on the delete stack
Pushed == {AfterCutPred.ds[i] : i \in 1 .. Len(AfterCutPred.ds)}

\* C11: when the vertices with pos > tolerance form one arc and plane returns
\* true, the vertices pushed on the delete stack are exactly those with
\* pos > tolerance; a vertex with pos = tolerance is not pushed.
C11_RemovedAreOutside ==
    (Traced /\ last.ret = "true" /\ OneArc(OutsideSet)) => Pushed = OutsideSet

\* -tolerance <= u <= tolerance
OnPlane(u) == IsFin(u) /\ -tolerance <= u[2] /\ u[2] <= tolerance

\* the call went on to cut the cell: a vertex to delete was found and the
\* succ sweep stopped before coming round
Cuts == Traced /\ last.ret = "true" /\ AfterDeleteSucc.st = "run"

\* C12: in a call that cuts the cell, when up2 lies on the plane no vertex is
\* appended on the succ side and up2 is the end of the cut; when up3 lies on
\* the plane none is appended on the pred side and up3 is made the neighbour
\* of cp; with both on the plane, p falls by the number of removed vertices.
C12_OnPlaneReused ==
    Cuts =>
        /\ OnPlane(AfterDeleteSucc.u2) =>
              (AfterCutSucc.nw = << >> /\ AfterCutSucc.cp = AfterDeleteSucc.up2)
        /\ OnPlane(AfterDeletePred.u3) =>
              /\ AfterCutPred.nw = AfterCutSucc.nw
              /\ succ(AfterCutPred.ed, AfterDeletePred.up3) = AfterCutSucc.cp
        /\ (OnPlane(AfterDeleteSucc.u2) /\ OnPlane(AfterDeletePred.u3)) =>
              p = last.pre.p - Cardinality(Pushed)

\* the pred sweep has ended at up2
MetUp2 == AfterDeletePred.up3 = AfterDeletePred.up2

\* C13: in a call that cuts the cell, when the pred sweep has ended at up2,
\* Phase 5 appends no vertex and sets pred(cp) = up3 and succ(up3) = cp.
C13_ClosingBranch ==
    (Cuts /\ MetUp2) =>
        /\ AfterCutPred.nw = AfterCutSucc.nw
        /\ pred(AfterCutPred.ed, AfterCutSucc.cp) = AfterDeletePred.up3
        /\ succ(AfterCutPred.ed, AfterDeletePred.up3) = AfterCutSucc.cp

\* the vertices next to the arc of outside vertices
NextToOutside ==
    {v \in PreVertices \ OutsideSet :
        succ(last.pre.ed, v) \in OutsideSet \/ pred(last.pre.ed, v) \in OutsideSet}

\* some but not all vertices are outside, in one arc, and the vertices next
\* to the arc are strictly inside
ProperCut ==
    /\ Traced
    /\ OutsideSet # {}
    /\ OutsideSet # PreVertices
    /\ OneArc(OutsideSet)
    /\ \A v \in NextToOutside : FLt(PosOf(v), FNeg(Tol))

\* C14: a proper cut with k vertices outside returns true and leaves
\* p = p_before - k + 2; no plane call appends more than two vertices.
C14_VertexCount ==
    /\ ProperCut =>
          (last.ret = "true" /\ p = last.pre.p - Cardinality(OutsideSet) + 2)
    /\ Traced => Len(AfterCutPred.nw) <= 2

\* the coordinates of vertex v
Coord(ptsv, v) == <<ptsv[2 * v], ptsv[2 * v + 1]>>

\* the coordinates along succ from v, n vertices
RECURSIVE CycleCoords(_, _, _, _)
CycleCoords(edv, ptsv, v, n) ==
    IF n = 0 THEN << >>
    ELSE <<Coord(ptsv, v)>> \o CycleCoords(edv, ptsv, succ(edv, v), n - 1)

\* the pre-call coordinates along the pre-call succ from v, n vertices, those
\* of D left out
RECURSIVE KeptCoords(_, _, _)
KeptCoords(v, n, D) ==
    IF n = 0 THEN << >>
    ELSE (IF v \in D THEN << >> ELSE <<Coord(last.pre.pts, v)>>)
            \o KeptCoords(succ(last.pre.ed, v), n - 1, D)

\* the coordinates of the vertices the call created, the last created first
NewCoords ==
    [i \in 1 .. Len(AfterCutPred.nw) |->
        Coord(AfterCutPred.pts,
              AfterCutPred.nw[Len(AfterCutPred.nw) + 1 - i][1])]

\* the cycle the call should leave: the kept vertices in their pre-call
\* order from up2 on, then the created vertices
ExpectedCycle ==
    IF AfterDeleteSucc.st = "run"
    THEN KeptCoords(AfterDeleteSucc.up2, last.pre.p, Pushed) \o NewCoords
    ELSE KeptCoords(0, last.pre.p, {})

\* s is t read from some other position on
IsRotation(s, t) ==
    /\ Len(s) = Len(t)
    /\ \E r \in 0 .. Len(s) :
         \A i \in 1 .. Len(s) : s[i] = t[((i - 1 + r) % Len(s)) + 1]

\* C15: after a plane call that returned true, no adjacency entry of [0,p)
\* is -1 or an index >= p, and the cycle read from succ is made of the
\* pre-call vertices that were not pushed, with their pre-call coordinates
\* and in their pre-call order, and of the created vertices between the two
\* ends of the kept arc.
C15_SurvivorsPreserved ==
    (Traced /\ last.ret = "true") =>
        /\ InRange(p, ed)
        /\ IsRotation(CycleCoords(ed, pts, 0, p), ExpectedCycle)

\* a cut of the rectangle has removed two vertices, created two, and moved
\* a created vertex into a freed slot
C15_Witness ==
    /\ Cuts
    /\ last.rect
    /\ Cardinality(Pushed) = 2
    /\ Len(AfterCutPred.nw) = 2
    /\ \E v \in Pushed : v < p /\ Coord(pts, v) = NewCoords[1]

\* ------------------------------------------------------------------------
\* Growth.

\* C16: while no maximum is exceeded, a run that grows its arenas returns
\* what a run with capacities that need no growth returns, and leaves the
\* same p and the same coordinates and adjacency in [0,p).
C16_GrowthTransparent ==
    (status = "ok" /\ last.op = "plane" /\ last.bigret \in {"true", "false"}) =>
        /\ last.ret = last.bigret
        /\ p = last.big.p
        /\ \A i \in 0 .. (2 * p - 1) :
              ed[i] = last.big.ed[i] /\ pts[i] = last.big.pts[i]

\* one call has grown the delete stack in a sweep and the vertex arena, and
\* has returned true
C16_Witness ==
    /\ status = "ok"
    /\ last.op = "plane"
    /\ last.ret = "true"
    /\ last.grewVertices
    /\ last.grewStack
    /\ calls >= 3

\* ------------------------------------------------------------------------
\* The interpolation.

\* Phase 3 computes an intersection vertex
InterpolatesSucc ==
    AfterDeleteSucc.st = "run" /\ ~FGt(AfterDeleteSucc.u2, FNeg(Tol))

\* Phase 5 computes an intersection vertex
InterpolatesPred ==
    AfterDeletePred.st = "run" /\ ~FGt(AfterDeletePred.u3, Tol)

\* C17: whenever a plane call computes an intersection vertex, the
\* denominator is not zero: u2 - l in Phase 3, u3 - l in Phase 5.
C17_NoDivisionByZero ==
    Traced =>
        /\ InterpolatesSucc =>
              FSub(AfterDeleteSucc.u2, AfterDeleteSucc.l) # Fin(0)
        /\ InterpolatesPred =>
              FSub(AfterDeletePred.u3, AfterDeletePred.l) # Fin(0)

\* ------------------------------------------------------------------------
\* The shape of a surviving cell.

\* C18: on a cell that descends from an init with xmin < xmax and
\* ymin < ymax, a plane call that returns true leaves p >= 3.
C18_SurvivorIsPolygon ==
    (Traced /\ last.rect /\ last.ret = "true") => p >= 3

\* ------------------------------------------------------------------------
\* Termination.

\* C19: every plane call on a cell reached from init by plane calls comes to
\* an end: no loop of plane runs for ever, and the tail-skip loop of the
\* compaction does not take p below 0.
C19_PlaneTerminates ==
    /\ status \notin {"hang", "oob"}
    /\ inited => p >= 0

\* a plane call on a cell of two vertices has found a vertex outside and has
\* returned
C19_Witness ==
    /\ PlaneReturned
    /\ last.n = 2
    /\ last.nOut >= 1
    /\ last.ret = "true"

====
